---- MODULE Spec2Model ----
(***************************************************************************)
(* Model of the archive/export helpers of git-buildpackage                 *)
(* (gbp/scripts/common/buildpackage.py) and of the Command wrapper         *)
(* (git_buildpackage/__init__.py).                                         *)
(*                                                                         *)
(* Strings are sequences of one-character strings.  One call is in flight  *)
(* at a time (the code is single threaded); pc is the position inside the  *)
(* running function.  Every invocation of an external collaborator (the    *)
(* repository object, a shell pipeline, the compressor, a child process)   *)
(* is appended to log together with its outcome, which is chosen           *)
(* nondeterministically.  Calls to gbp.log only write diagnostics and are  *)
(* not modelled.                                                           *)
(***************************************************************************)
EXTENDS Integers, Sequences, FiniteSets, TLC

VARIABLES pc, fn, via, args, prefix, tarfile, tempdir, output_dir, paths,
          top, i, retcode, exc, result, fs, cwd, submodules, log

vars == <<pc, fn, via, args, prefix, tarfile, tempdir, output_dir, paths,
          top, i, retcode, exc, result, fs, cwd, submodules, log>>

locals ==
    <<prefix, tarfile, tempdir, output_dir, paths, top, i, retcode, exc>>

----------------------------------------------------------------------------
(* Bounds of the model *)

\* longest prefix argument
MaxLen == 3
\* most submodules bound in the tree
MaxSubs == 2
\* most entries in a top-level tree listing
MaxEntries == 2

----------------------------------------------------------------------------
(* Input domains *)

RECURSIVE SeqsUpTo(_, _)
SeqsUpTo(S, n) ==
    IF n = 0 THEN {<<>>}
    ELSE LET shorter == SeqsUpTo(S, n - 1)
         IN  shorter \cup {Append(s, c) : s \in shorter, c \in S}

Prefixes == SeqsUpTo({"/", "a"}, MaxLen)

Outputs == { <<"o">>, <<"o", ".", "g">>, <<"o", ".", "t", ".", "g">> }

ExportDirs == { <<"d">>, <<"/", "e", "/", "d">>, <<"e", "/">> }

Treeishes == {"HEAD"}

Comps == { [comp_type |-> "gzip", comp_level |-> "9", comp_opts |-> ""] }

SubmoduleRecords ==
    { [subdir |-> <<".", "/", "s">>, commit |-> "c1"],
      [subdir |-> <<"t">>,           commit |-> "c2"] }

SubmoduleLists == SeqsUpTo(SubmoduleRecords, MaxSubs)

TreeEntries ==
    [mode : {"m"}, typ : {"blob", "tree", "commit"}, sha : {"h"},
     nam : {<<"a">>, <<"b">>}]

Listings == SeqsUpTo(TreeEntries, MaxEntries)

TmpNames == {"tmp1", "tmp2"}

StartDir == <<"repo">>

\* wait statuses a shell pipeline or os.system can hand back
Rets == {0, 1, 256}

\* exit codes subprocess.call can hand back (negative: killed by a signal)
RetCodes == {-9, 0, 1, 2}

\* exception classes the external collaborators can raise
ExtKinds == {"OSError", "GbpError", "Exception"}

----------------------------------------------------------------------------
(* Values *)

Exc(kind, text, path, code) ==
    [kind |-> kind, text |-> text, path |-> path, code |-> code]

NoExc == Exc("none", "", <<>>, 0)

External(kind) == Exc(kind, "external", <<>>, 0)

Returned(v) == [kind |-> "return", value |-> v, exc |-> NoExc]

Raised(e) == [kind |-> "raise", value |-> "None", exc |-> e]

NoResult == [kind |-> "none", value |-> "None", exc |-> NoExc]

NoArgs == [none |-> TRUE]

----------------------------------------------------------------------------
(* Pure helpers *)

RECURSIVE lstrip(_)
lstrip(s) ==
    IF s # <<>> /\ Head(s) = "/" THEN lstrip(Tail(s)) ELSE s

RECURSIVE rstrip(_)
rstrip(s) ==
    IF s # <<>> /\ s[Len(s)] = "/" THEN rstrip(SubSeq(s, 1, Len(s) - 1)) ELSE s

\* str.strip('/')
strip(s) == rstrip(lstrip(s))

sanitize_prefix_keep_leading(p) ==
    IF p # <<>> THEN rstrip(p) \o <<"/">> ELSE <<"/">>

sanitize_prefix(p) ==
    IF p # <<>> THEN strip(p) \o <<"/">> ELSE <<"/">>

\* str.rfind(c) + 1: the position of the last c in s, 0 when there is none
rfind1(s, c) ==
    LET hits == {k \in 1..Len(s) : s[k] = c}
    IN  IF hits = {} THEN 0 ELSE CHOOSE k \in hits : \A j \in hits : j <= k

\* output.rsplit('.', 1)[0]
rsplit_head(s) ==
    IF rfind1(s, ".") = 0 THEN s ELSE SubSeq(s, 1, rfind1(s, ".") - 1)

\* [subdir, subdir[2:]][subdir.startswith("./")]
tarpath(subdir) ==
    IF Len(subdir) >= 2 /\ subdir[1] = "." /\ subdir[2] = "/"
    THEN SubSeq(subdir, 3, Len(subdir))
    ELSE subdir

\* os.path.basename
basename(p) == SubSeq(p, rfind1(p, "/") + 1, Len(p))

\* os.path.dirname
dirname(p) ==
    LET head == SubSeq(p, 1, rfind1(p, "/"))
    IN  IF head # <<>> /\ rstrip(head) # <<>> THEN rstrip(head) ELSE head

\* pipes.quote on the characters used here (all of them shell-safe)
pipes_quote(s) == IF s = <<>> THEN <<"'", "'">> ELSE s

\* "'%s'" % nam
quoted(nam) == <<"'">> \o nam \o <<"'">>

exported_not_tree(typ) == typ # "tree"

\* the filter of the comprehension: typ == 'blob'
exported(typ) == typ = "blob"

RECURSIVE blob_paths(_)
blob_paths(listing) ==
    IF listing = <<>> THEN <<>>
    ELSE IF exported(Head(listing).typ)
         THEN <<quoted(Head(listing).nam)>> \o blob_paths(Tail(listing))
         ELSE blob_paths(Tail(listing))

----------------------------------------------------------------------------
(* Initial state: no call in flight, an arbitrary repository *)

Init ==
    /\ pc = "idle"
    /\ fn = "none"
    /\ via = "none"
    /\ args = NoArgs
    /\ prefix = <<>>
    /\ tarfile = <<>>
    /\ tempdir = "none"
    /\ output_dir = <<>>
    /\ paths = <<>>
    /\ top = <<>>
    /\ i = 0
    /\ retcode = 0
    /\ exc = NoExc
    /\ result = NoResult
    /\ fs = {}
    /\ cwd = StartDir
    /\ submodules \in SubmoduleLists
    /\ log = <<>>

----------------------------------------------------------------------------
(* Log entries: one per invocation of an external collaborator *)

ArchiveEv(pfx, out, treeish, dir, ok) ==
    [op |-> "repo.archive", format |-> "tar", prefix |-> pfx, output |-> out,
     treeish |-> treeish, cwd |-> dir, ok |-> ok]

CatEv(archive, target, ok) ==
    [op |-> "CatenateTarArchive", archive |-> archive, target |-> target,
     ok |-> ok]

SystemEv(cmd, ret) == [op |-> "os.system", cmd |-> cmd, ret |-> ret]

PipeEv(cmds, infile, outfile, dir, ok, ret) ==
    [op |-> "pipe.copy", cmds |-> cmds, infile |-> infile,
     outfile |-> outfile, cwd |-> dir, ok |-> ok, ret |-> ret]

QueryEv(op, ok) == [op |-> op, ok |-> ok]

HasSubmodulesEv(ok, answer) ==
    [op |-> "repo.has_submodules", ok |-> ok, answer |-> answer]

ListTreeEv(treeish, ok, listing) ==
    [op |-> "repo.list_tree", treeish |-> treeish, ok |-> ok,
     listing |-> listing]

ChdirEv(dir, ok) == [op |-> "os.chdir", dir |-> dir, ok |-> ok]

SpawnEv(started, code) ==
    [op |-> "subprocess.call", started |-> started, code |-> code]

StderrEv(text) == [op |-> "stderr", text |-> text]

\* os.path.join(tempdir, "submodule.tar")
submodule_tarfile == <<tempdir, "submodule.tar">>

ArchiveArgs ==
    [prefix : Prefixes, output : Outputs, treeish : Treeishes, comp : Comps]

----------------------------------------------------------------------------
(* git_archive_submodules *)

Call_git_archive_submodules ==
    /\ pc = "idle"
    /\ \E a \in ArchiveArgs : args' = a
    /\ fn' = "git_archive_submodules"
    /\ via' = "direct"
    /\ pc' = "gas_setup"
    /\ UNCHANGED <<locals, result, fs, cwd, submodules, log>>

\* lines 62-65: tempfile.mkdtemp() makes a fresh directory, or raises before
\* the try block is entered
gas_setup ==
    /\ pc = "gas_setup"
    /\ prefix' = sanitize_prefix(args.prefix)
    /\ tarfile' = rsplit_head(args.output)
    /\ \/ /\ \E d \in TmpNames \ fs :
                /\ tempdir' = d
                /\ fs' = fs \cup {d}
          /\ pc' = "gas_main"
          /\ UNCHANGED result
       \/ /\ result' = Raised(External("OSError"))
          /\ pc' = "done"
          /\ UNCHANGED <<tempdir, fs>>
    /\ UNCHANGED <<fn, via, args, output_dir, paths, top, i, retcode, exc, cwd,
                   submodules, log>>

\* lines 68-69
gas_main ==
    /\ pc = "gas_main"
    /\ \/ /\ log' = Append(log, ArchiveEv(prefix, tarfile, args.treeish,
                                          <<>>, TRUE))
          /\ pc' = "gas_subs"
          /\ UNCHANGED exc
       \/ \E k \in ExtKinds :
            /\ log' = Append(log, ArchiveEv(prefix, tarfile, args.treeish,
                                            <<>>, FALSE))
            /\ exc' = External(k)
            /\ pc' = "gas_finally"
    /\ UNCHANGED <<fn, via, args, prefix, tarfile, tempdir, output_dir,
                   paths, top, i, retcode, result, fs, cwd, submodules>>

\* line 72: repo.get_submodules(treeish)
gas_subs ==
    /\ pc = "gas_subs"
    /\ \/ /\ log' = Append(log, QueryEv("repo.get_submodules", TRUE))
          /\ i' = 1
          /\ pc' = "gas_loop"
          /\ UNCHANGED exc
       \/ \E k \in ExtKinds :
            /\ log' = Append(log, QueryEv("repo.get_submodules", FALSE))
            /\ exc' = External(k)
            /\ pc' = "gas_finally"
            /\ UNCHANGED i
    /\ UNCHANGED <<fn, via, args, prefix, tarfile, tempdir, output_dir,
                   paths, top, retcode, result, fs, cwd, submodules>>

\* lines 72-77: the next submodule's archive, or the end of the loop
gas_loop ==
    /\ pc = "gas_loop"
    /\ IF i > Len(submodules)
       THEN /\ pc' = "gas_compress"
            /\ UNCHANGED <<log, exc>>
       ELSE LET sm == submodules[i]
                pfx == prefix \o tarpath(sm.subdir) \o <<"/">>
            IN  \/ /\ log' = Append(log, ArchiveEv(pfx, submodule_tarfile,
                                                   sm.commit, sm.subdir, TRUE))
                   /\ pc' = "gas_cat"
                   /\ UNCHANGED exc
                \/ \E k \in ExtKinds :
                     /\ log' = Append(log, ArchiveEv(pfx, submodule_tarfile,
                                                     sm.commit, sm.subdir,
                                                     FALSE))
                     /\ exc' = External(k)
                     /\ pc' = "gas_finally"
    /\ UNCHANGED <<fn, via, args, prefix, tarfile, tempdir, output_dir,
                   paths, top, i, retcode, result, fs, cwd, submodules>>

gas_cat_forgotten ==
    /\ pc = "gas_cat"
    /\ i' = i + 1
    /\ pc' = "gas_loop"
    /\ UNCHANGED <<fn, via, args, prefix, tarfile, tempdir, output_dir,
                   paths, top, retcode, exc, result, fs, cwd, submodules, log>>

\* line 78: CatenateTarArchive(tarfile)(submodule_tarfile)
gas_cat ==
    /\ pc = "gas_cat"
    /\ \/ /\ log' = Append(log, CatEv(tarfile, submodule_tarfile, TRUE))
          /\ i' = i + 1
          /\ pc' = "gas_loop"
          /\ UNCHANGED exc
       \/ /\ log' = Append(log, CatEv(tarfile, submodule_tarfile, FALSE))
          /\ exc' = External("Exception")
          /\ pc' = "gas_finally"
          /\ UNCHANGED i
    /\ UNCHANGED <<fn, via, args, prefix, tarfile, tempdir, output_dir,
                   paths, top, retcode, result, fs, cwd, submodules>>

compress_cmd ==
    <<args.comp.comp_type, args.comp.comp_level, args.comp.comp_opts, tarfile>>

gas_compress_names_tarfile ==
    /\ pc = "gas_compress"
    /\ \E ret \in Rets :
         /\ log' = Append(log, SystemEv(compress_cmd, ret))
         /\ exc' = IF ret # 0
                   THEN Exc("GbpError", "Error creating", tarfile, ret)
                   ELSE NoExc
    /\ pc' = "gas_finally"
    /\ UNCHANGED <<fn, via, args, prefix, tarfile, tempdir, output_dir,
                   paths, top, i, retcode, result, fs, cwd, submodules>>

\* lines 81-83
gas_compress ==
    /\ pc = "gas_compress"
    /\ \E ret \in Rets :
         /\ log' = Append(log, SystemEv(compress_cmd, ret))
         /\ exc' = IF ret # 0
                   THEN Exc("GbpError", "Error creating", args.output, ret)
                   ELSE NoExc
    /\ pc' = "gas_finally"
    /\ UNCHANGED <<fn, via, args, prefix, tarfile, tempdir, output_dir,
                   paths, top, i, retcode, result, fs, cwd, submodules>>

gas_finally_only_on_success ==
    /\ pc = "gas_finally"
    /\ fs' = IF exc = NoExc THEN fs \ {tempdir} ELSE fs
    /\ result' = IF exc = NoExc THEN Returned("None") ELSE Raised(exc)
    /\ pc' = "done"
    /\ UNCHANGED <<fn, via, args, locals, cwd, submodules, log>>

\* lines 84-85: shutil.rmtree(tempdir), then the pending exception, if any,
\* goes on to the caller
gas_finally ==
    /\ pc = "gas_finally"
    /\ fs' = fs \ {tempdir}
    /\ result' = IF exc = NoExc THEN Returned("None") ELSE Raised(exc)
    /\ pc' = "done"
    /\ UNCHANGED <<fn, via, args, locals, cwd, submodules, log>>

----------------------------------------------------------------------------
(* git_archive_single *)

Call_git_archive_single ==
    /\ pc = "idle"
    /\ \E a \in ArchiveArgs : args' = a
    /\ fn' = "git_archive_single"
    /\ via' = "direct"
    /\ pc' = "gs_copy"
    /\ UNCHANGED <<locals, result, fs, cwd, submodules, log>>

single_cmds(pfx) ==
    << [prog |-> "git archive --format=tar", prefix |-> pfx,
        treeish |-> args.treeish, kind |-> ".-"],
       [prog |-> args.comp.comp_type, opts |-> <<"-c", args.comp.comp_level,
        args.comp.comp_opts>>, kind |-> "--"] >>

gs_copy_via_tempdir ==
    /\ pc = "gs_copy"
    /\ prefix' = sanitize_prefix(args.prefix)
    /\ \E d \in TmpNames \ fs :
         /\ tempdir' = d
         /\ fs' = fs \cup {d}
    /\ \E ret \in Rets :
         /\ log' = Append(log, PipeEv(single_cmds(prefix'), <<>>,
                                      args.output, <<>>, TRUE, ret))
         /\ result' = IF ret # 0
                      THEN Raised(Exc("GbpError", "Error creating",
                                      args.output, ret))
                      ELSE Returned("None")
    /\ pc' = "done"
    /\ UNCHANGED <<fn, via, args, tarfile, output_dir, paths, top, i,
                   retcode, exc, cwd, submodules>>

\* lines 94-100: one pipeline, git archive | compressor, written to output
gs_copy ==
    /\ pc = "gs_copy"
    /\ prefix' = sanitize_prefix(args.prefix)
    /\ \/ \E ret \in Rets :
            /\ log' = Append(log, PipeEv(single_cmds(prefix'), <<>>,
                                         args.output, <<>>, TRUE, ret))
            /\ result' = IF ret # 0
                         THEN Raised(Exc("GbpError", "Error creating",
                                         args.output, ret))
                         ELSE Returned("None")
       \/ \E k \in ExtKinds :
            /\ log' = Append(log, PipeEv(single_cmds(prefix'), <<>>,
                                         args.output, <<>>, FALSE, 0))
            /\ result' = Raised(External(k))
    /\ pc' = "done"
    /\ UNCHANGED <<fn, via, args, tarfile, tempdir, output_dir, paths, top,
                   i, retcode, exc, fs, cwd, submodules>>

----------------------------------------------------------------------------
(* The caller that picks one of the two archive algorithms: the single-part *)
(* path when the tree has no submodules to include, the submodule-aware     *)
(* path otherwise.                                                          *)

Call_git_archive ==
    /\ pc = "idle"
    /\ \E a \in ArchiveArgs : args' = a
    /\ via' = "git_archive"
    /\ IF submodules = <<>>
       THEN fn' = "git_archive_single" /\ pc' = "gs_copy"
       ELSE fn' = "git_archive_submodules" /\ pc' = "gas_setup"
    /\ UNCHANGED <<locals, result, fs, cwd, submodules, log>>

----------------------------------------------------------------------------
(* dump_tree *)

DumpArgs ==
    [export_dir : ExportDirs, treeish : Treeishes,
     with_submodules : BOOLEAN, recursive : BOOLEAN]

Call_dump_tree ==
    /\ pc = "idle"
    /\ \E a \in DumpArgs : args' = a
    /\ fn' = "dump_tree"
    /\ via' = "direct"
    /\ pc' = "dt_setup"
    /\ UNCHANGED <<locals, result, fs, cwd, submodules, log>>

\* lines 106-118, all of them before the try block: an exception of
\* repo.list_tree leaves dump_tree at once
dt_setup ==
    /\ pc = "dt_setup"
    /\ output_dir' = dirname(args.export_dir)
    /\ prefix' = sanitize_prefix(basename(args.export_dir))
    /\ IF args.recursive
       THEN /\ paths' = <<>>
            /\ top' = cwd
            /\ pc' = "dt_pipe"
            /\ UNCHANGED <<log, result>>
       ELSE \/ \E listing \in Listings :
                 /\ log' = Append(log, ListTreeEv(args.treeish, TRUE, listing))
                 /\ paths' = blob_paths(listing)
                 /\ top' = cwd
                 /\ pc' = "dt_pipe"
                 /\ UNCHANGED result
            \/ \E k \in ExtKinds :
                 /\ log' = Append(log, ListTreeEv(args.treeish, FALSE, <<>>))
                 /\ result' = Raised(External(k))
                 /\ pc' = "done"
                 /\ UNCHANGED <<paths, top>>
    /\ UNCHANGED <<fn, via, args, tarfile, tempdir, i, retcode, exc, fs, cwd,
                   submodules>>

dump_cmds(pfx, treeish, pths) ==
    << [prog |-> "git archive --format=tar", prefix |-> pfx,
        treeish |-> treeish, paths |-> pths, kind |-> ".-"],
       [prog |-> "tar -xf -", dir |-> pipes_quote(output_dir), kind |-> "-."] >>

\* lines 114-124
dt_pipe ==
    /\ pc = "dt_pipe"
    /\ LET cmds == dump_cmds(prefix, args.treeish, paths)
       IN  \/ \E ret \in Rets :
                /\ log' = Append(log, PipeEv(cmds, <<>>, <<>>, cwd, TRUE, ret))
                /\ IF ret # 0
                   THEN /\ exc' = Exc("GbpError",
                                      "Error in dump_tree archive pipe",
                                      <<>>, 0)
                        /\ pc' = "dt_except"
                   ELSE /\ exc' = exc
                        /\ pc' = IF args.recursive /\ args.with_submodules
                                 THEN "dt_update"
                                 ELSE "dt_finally"
           \/ \E k \in ExtKinds :
                /\ log' = Append(log, PipeEv(cmds, <<>>, <<>>, cwd, FALSE, 0))
                /\ exc' = External(k)
                /\ pc' = "dt_except"
    /\ UNCHANGED <<fn, via, args, prefix, tarfile, tempdir, output_dir,
                   paths, top, i, retcode, result, fs, cwd, submodules>>

\* lines 125-126: update_submodules is called only when has_submodules
\* answers True
dt_update ==
    /\ pc = "dt_update"
    /\ \/ /\ log' = Append(log, HasSubmodulesEv(TRUE, FALSE))
          /\ pc' = "dt_subs"
          /\ UNCHANGED exc
       \/ /\ log' = log \o << HasSubmodulesEv(TRUE, TRUE),
                              QueryEv("repo.update_submodules", TRUE) >>
          /\ pc' = "dt_subs"
          /\ UNCHANGED exc
       \/ \E k \in ExtKinds :
            /\ log' = log \o << HasSubmodulesEv(TRUE, TRUE),
                                QueryEv("repo.update_submodules", FALSE) >>
            /\ exc' = External(k)
            /\ pc' = "dt_except"
       \/ \E k \in ExtKinds :
            /\ log' = Append(log, HasSubmodulesEv(FALSE, FALSE))
            /\ exc' = External(k)
            /\ pc' = "dt_except"
    /\ UNCHANGED <<fn, via, args, prefix, tarfile, tempdir, output_dir,
                   paths, top, i, retcode, result, fs, cwd, submodules>>

\* line 127: repo.get_submodules(treeish)
dt_subs ==
    /\ pc = "dt_subs"
    /\ \/ /\ log' = Append(log, QueryEv("repo.get_submodules", TRUE))
          /\ i' = 1
          /\ pc' = "dt_loop"
          /\ UNCHANGED exc
       \/ \E k \in ExtKinds :
            /\ log' = Append(log, QueryEv("repo.get_submodules", FALSE))
            /\ exc' = External(k)
            /\ pc' = "dt_except"
            /\ UNCHANGED i
    /\ UNCHANGED <<fn, via, args, prefix, tarfile, tempdir, output_dir,
                   paths, top, retcode, result, fs, cwd, submodules>>

\* lines 127-130: the end of the loop, or os.chdir(subdir)
dt_loop ==
    /\ pc = "dt_loop"
    /\ IF i > Len(submodules)
       THEN /\ pc' = "dt_finally"
            /\ UNCHANGED <<log, exc, cwd>>
       ELSE LET subdir == submodules[i].subdir
            IN  \/ /\ log' = Append(log, ChdirEv(subdir, TRUE))
                   /\ cwd' = Append(cwd, subdir)
                   /\ pc' = "dt_subpipe"
                   /\ UNCHANGED exc
                \/ /\ log' = Append(log, ChdirEv(subdir, FALSE))
                   /\ exc' = External("OSError")
                   /\ pc' = "dt_except"
                   /\ UNCHANGED cwd
    /\ UNCHANGED <<fn, via, args, prefix, tarfile, tempdir, output_dir,
                   paths, top, i, retcode, result, fs, submodules>>

sub_cmds ==
    dump_cmds(prefix \o tarpath(submodules[i].subdir) \o <<"/">>,
              submodules[i].commit, <<>>)

sub_error ==
    Exc("GbpError", "Error in dump_tree archive pipe in submodule",
        submodules[i].subdir, 0)

dt_subpipe_goes_on ==
    /\ pc = "dt_subpipe"
    /\ \/ \E ret \in Rets :
            /\ log' = Append(log, PipeEv(sub_cmds, <<>>, <<>>, cwd, TRUE, ret))
            /\ cwd' = top
            /\ i' = i + 1
            /\ pc' = "dt_loop"
            /\ UNCHANGED exc
       \/ \E k \in ExtKinds :
            /\ log' = Append(log, PipeEv(sub_cmds, <<>>, <<>>, cwd, FALSE, 0))
            /\ exc' = External(k)
            /\ pc' = "dt_except"
            /\ UNCHANGED <<cwd, i>>
    /\ UNCHANGED <<fn, via, args, prefix, tarfile, tempdir, output_dir,
                   paths, top, retcode, result, fs, submodules>>

\* lines 131-138: the submodule's pipeline, os.chdir(top), then the check of
\* ret; an exception of pipe.copy skips line 136
dt_subpipe ==
    /\ pc = "dt_subpipe"
    /\ \/ \E ret \in Rets :
            /\ log' = Append(log, PipeEv(sub_cmds, <<>>, <<>>, cwd, TRUE, ret))
            /\ cwd' = top
            /\ IF ret # 0
               THEN /\ exc' = sub_error
                    /\ pc' = "dt_except"
                    /\ UNCHANGED i
               ELSE /\ i' = i + 1
                    /\ pc' = "dt_loop"
                    /\ UNCHANGED exc
       \/ \E k \in ExtKinds :
            /\ log' = Append(log, PipeEv(sub_cmds, <<>>, <<>>, cwd, FALSE, 0))
            /\ exc' = External(k)
            /\ pc' = "dt_except"
            /\ UNCHANGED <<cwd, i>>
    /\ UNCHANGED <<fn, via, args, prefix, tarfile, tempdir, output_dir,
                   paths, top, retcode, result, fs, submodules>>

\* lines 139-147: each of the three handlers logs and returns False (the
\* OSError handler logs err[0], the errno, by Python 2's indexing of an
\* exception's args)
dt_except ==
    /\ pc = "dt_except"
    /\ exc.kind \in {"OSError", "GbpError", "Exception"}
    /\ result' = Returned("False")
    /\ pc' = "dt_finally"
    /\ UNCHANGED <<fn, via, args, locals, fs, cwd, submodules, log>>

dt_finally_no_chdir ==
    /\ pc = "dt_finally"
    /\ result' = IF result = NoResult THEN Returned("True") ELSE result
    /\ pc' = "done"
    /\ UNCHANGED <<fn, via, args, locals, fs, cwd, submodules, log>>

\* lines 148-150: os.chdir(top), then the handler's False or line 150's True
dt_finally ==
    /\ pc = "dt_finally"
    /\ cwd' = top
    /\ result' = IF result = NoResult THEN Returned("True") ELSE result
    /\ pc' = "done"
    /\ UNCHANGED <<fn, via, args, locals, fs, submodules, log>>

----------------------------------------------------------------------------
(* Command *)

Call_Command ==
    /\ pc = "idle"
    /\ \E v \in BOOLEAN : args' = [cmd |-> "cmd", verbose |-> v]
    /\ fn' = "Command"
    /\ via' = "direct"
    /\ pc' = "cmd_run"
    /\ UNCHANGED <<locals, result, fs, cwd, submodules, log>>

echo == IF args.verbose THEN <<[op |-> "stdout", text |-> args.cmd]>> ELSE <<>>

\* lines 23-26: the diagnostic for a child that ran
exit_report(code) ==
    IF code < 0 THEN <<StderrEv("was terminated by signal")>>
    ELSE IF code > 0 THEN <<StderrEv("returned")>>
    ELSE <<>>

\* lines 30-31
run_error(code) == IF code # 0 THEN <<StderrEv("run_error")>> ELSE <<>>

\* lines 18-32: Command.__run
cmd_run ==
    /\ pc = "cmd_run"
    /\ \/ \E code \in RetCodes :
            /\ retcode' = code
            /\ log' = log \o echo \o <<SpawnEv(TRUE, code)>>
                          \o exit_report(code) \o run_error(code)
       \/ /\ retcode' = 1
          /\ log' = log \o echo \o <<SpawnEv(FALSE, 0)>>
                        \o <<StderrEv("Execution failed:")>> \o run_error(1)
    /\ pc' = "cmd_call"
    /\ UNCHANGED <<fn, via, args, prefix, tarfile, tempdir, output_dir,
                   paths, top, i, exc, result, fs, cwd, submodules>>

run_failed_positive(code) == code > 0

\* line 35: the truth value of what __run returned
run_failed(code) == code # 0

\* lines 34-36: Command.__call__
cmd_call ==
    /\ pc = "cmd_call"
    /\ result' = IF run_failed(retcode)
                 THEN Raised(Exc("CommandExecFailed", "", <<>>, 0))
                 ELSE Returned("None")
    /\ pc' = "done"
    /\ UNCHANGED <<fn, via, args, locals, fs, cwd, submodules, log>>

----------------------------------------------------------------------------
(* The call is over: its frame goes away, the file system and the working  *)
(* directory stay as the call left them.                                   *)

Return ==
    /\ pc = "done"
    /\ pc' = "idle"
    /\ fn' = "none"
    /\ via' = "none"
    /\ args' = NoArgs
    /\ prefix' = <<>>
    /\ tarfile' = <<>>
    /\ tempdir' = "none"
    /\ output_dir' = <<>>
    /\ paths' = <<>>
    /\ top' = <<>>
    /\ i' = 0
    /\ retcode' = 0
    /\ exc' = NoExc
    /\ result' = NoResult
    /\ log' = <<>>
    /\ UNCHANGED <<fs, cwd, submodules>>

Next ==
    \/ Call_git_archive
    \/ Call_git_archive_submodules
    \/ gas_setup
    \/ gas_main
    \/ gas_subs
    \/ gas_loop
    \/ gas_cat
    \/ gas_compress
    \/ gas_finally
    \/ Call_git_archive_single
    \/ gs_copy
    \/ Call_dump_tree
    \/ dt_setup
    \/ dt_pipe
    \/ dt_update
    \/ dt_subs
    \/ dt_loop
    \/ dt_subpipe
    \/ dt_except
    \/ dt_finally
    \/ Call_Command
    \/ cmd_run
    \/ cmd_call
    \/ Return

Spec == Init /\ [][Next]_vars

----------------------------------------------------------------------------
(* Properties *)

Done(f) == pc = "done" /\ fn = f

Events(op) == {k \in DOMAIN log : log[k].op = op}

\* a step that did not go through: it raised, or its pipeline came back
\* non-zero
StepFailed(e) == ~e.ok \/ (e.op = "pipe.copy" /\ e.ret # 0)

\* C1: once a call of git_archive_submodules has returned or raised, whatever
\* step failed, the staging directory it created does not exist.
C1_StagingDirRemoved ==
    Done("git_archive_submodules") => tempdir \notin fs /\ fs = {}

\* a call that made its staging directory and then raised out of the
\* concatenation of the second submodule
C1_Witness ==
    /\ Done("git_archive_submodules")
    /\ tempdir \in TmpNames
    /\ result.kind = "raise"
    /\ i = 2
    /\ log[Len(log)].op = "CatenateTarArchive"

\* C2: after a recursive dump_tree with submodules, successful or failed at
\* any point, the working directory is what it was before the call.
C2_CwdRestored ==
    (Done("dump_tree") /\ args.recursive /\ args.with_submodules)
        => cwd = StartDir /\ top = StartDir

\* the pipeline of the second submodule raised while the process was inside
\* that submodule's directory
C2_Witness ==
    /\ Done("dump_tree") /\ args.recursive /\ args.with_submodules
    /\ i = 2
    /\ log[Len(log)].op = "pipe.copy"
    /\ ~log[Len(log)].ok
    /\ log[Len(log)].cwd # StartDir

\* C3: dump_tree never lets an error out: it returns False when a step
\* failed (list_tree included) and True only when none did.
C3_NeverPropagates ==
    Done("dump_tree") =>
        /\ result.kind = "return"
        /\ result.value = "True" <=> \A k \in DOMAIN log : ~StepFailed(log[k])

\* C4: calling a Command raises CommandExecFailed exactly when the child
\* exited with a positive or negative code or could not be started; with
\* exit code 0 the call returns normally.
C4_RaisesIffFailed ==
    Done("Command") =>
        \A k \in Events("subprocess.call") :
            /\ (result.kind = "raise" /\ result.exc.kind = "CommandExecFailed")
                 <=> (~log[k].started \/ log[k].code > 0 \/ log[k].code < 0)
            /\ (log[k].started /\ log[k].code = 0) => result = Returned("None")

\* a child killed by a signal
C4_Witness ==
    /\ Done("Command")
    /\ \E k \in Events("subprocess.call") : log[k].started /\ log[k].code < 0
    /\ result.kind = "raise"

\* C5: a successful git_archive_submodules over N reported submodules
\* exports the main tree first, then for each submodule in reported order
\* one intermediate archive immediately followed by its concatenation onto
\* the main archive, and runs the compressor once, after the last
\* concatenation.
C5_ExportConcatOrder ==
    (Done("git_archive_submodules") /\ result.kind = "return") =>
        LET n == Len(submodules)
        IN  /\ Len(log) = 2 * n + 3
            /\ log[1].op = "repo.archive"
            /\ log[1].output = tarfile
            /\ log[1].treeish = args.treeish
            /\ log[2].op = "repo.get_submodules"
            /\ \A k \in 1..n :
                 /\ log[2 * k + 1].op = "repo.archive"
                 /\ log[2 * k + 1].treeish = submodules[k].commit
                 /\ log[2 * k + 1].cwd = submodules[k].subdir
                 /\ log[2 * k + 1].output = submodule_tarfile
                 /\ log[2 * k + 2].op = "CatenateTarArchive"
                 /\ log[2 * k + 2].archive = tarfile
                 /\ log[2 * k + 2].target = submodule_tarfile
            /\ log[2 * n + 3].op = "os.system"
            /\ Cardinality(Events("os.system")) = 1

\* a successful call over two different submodules
C5_Witness ==
    /\ Done("git_archive_submodules")
    /\ result.kind = "return"
    /\ Len(submodules) = 2
    /\ submodules[1] # submodules[2]

\* the string sanitize_prefix was applied to
PrefixInput ==
    IF fn = "dump_tree" THEN basename(args.export_dir) ELSE args.prefix

\* the running function is past its call of sanitize_prefix
Sanitized ==
    /\ fn \in {"git_archive_submodules", "git_archive_single", "dump_tree"}
    /\ pc \notin {"gas_setup", "gs_copy", "dt_setup"}

EndsWithOneSlash(s) ==
    /\ s # <<>>
    /\ s[Len(s)] = "/"
    /\ Len(s) >= 2 => s[Len(s) - 1] # "/"

NoLeadingSlash(s) == s = <<>> \/ s[1] # "/"

OnlySeparators(s) == \A k \in DOMAIN s : s[k] = "/"

\* C6 as stated: for every input, the empty string and strings of
\* separators included, the result of sanitize_prefix ends with exactly one
\* '/' and has no leading '/'.
C6_Original ==
    Sanitized => EndsWithOneSlash(prefix) /\ NoLeadingSlash(prefix)

\* C6: the result of sanitize_prefix ends with exactly one '/'; it has no
\* leading '/' when the input holds a character other than '/', and it is
\* the single separator "/" when the input is empty or made of separators.
C6_SanitizePrefix ==
    Sanitized =>
        /\ EndsWithOneSlash(prefix)
        /\ ~OnlySeparators(PrefixInput) => NoLeadingSlash(prefix)
        /\ OnlySeparators(PrefixInput) => prefix = <<"/">>

\* an input made of separators only has been sanitized to "/"
C6_Witness ==
    /\ Sanitized
    /\ fn = "git_archive_submodules"
    /\ args.prefix = <<"/", "/">>
    /\ prefix = <<"/">>

RequestsBlobsOf(L, P) ==
    LET blobs == {j \in DOMAIN L : L[j].typ = "blob"}
    IN  /\ Len(P) = Cardinality(blobs)
        /\ \A j \in blobs :
             P[Cardinality({m \in blobs : m <= j})]
                 = <<"'">> \o L[j].nam \o <<"'">>

\* C8: a non-recursive dump_tree asks git archive for exactly the names of
\* the top-level blob entries of the listing, in listing order; a recursive
\* one asks for no paths and does not list the tree.
C8_BlobPathsOnly ==
    fn = "dump_tree" =>
        \A k \in Events("pipe.copy") :
            IF args.recursive
            THEN /\ log[k].cmds[1].paths = <<>>
                 /\ Events("repo.list_tree") = {}
            ELSE /\ k = 2
                 /\ log[1].op = "repo.list_tree"
                 /\ log[1].ok
                 /\ RequestsBlobsOf(log[1].listing, log[k].cmds[1].paths)

\* a non-recursive export of a listing with a blob after a non-blob entry
C8_Witness ==
    /\ Done("dump_tree")
    /\ ~args.recursive
    /\ Events("pipe.copy") # {}
    /\ Len(log[1].listing) = 2
    /\ log[1].listing[1].typ # "blob"
    /\ log[1].listing[2].typ = "blob"

\* the compressor step of the two archive functions
CompressorSteps ==
    Events("os.system") \cup {k \in Events("pipe.copy") : log[k].ok}

\* C9: in git_archive_single and git_archive_submodules a non-zero result
\* of the compressor step raises a GbpError naming the output path and the
\* status; a zero result lets the call return.
C9_CompressorFailure ==
    (pc = "done" /\ fn \in {"git_archive_single", "git_archive_submodules"}) =>
        \A k \in CompressorSteps :
            IF log[k].ret # 0
            THEN result = Raised(Exc("GbpError", "Error creating",
                                     args.output, log[k].ret))
            ELSE result = Returned("None")

\* the compressor failed in the submodule path, for an output whose
\* intermediate tar file has another name
C9_Witness ==
    /\ Done("git_archive_submodules")
    /\ \E k \in Events("os.system") : log[k].ret # 0
    /\ tarfile # args.output

\* the directory changes dump_tree asked for, in order
Chdirs == SelectSeq(log, LAMBDA e : e.op = "os.chdir")

\* C10: in a recursive dump_tree with submodules nothing is entered or
\* exported after a step failed (a failed step is the last one), the
\* submodules are entered in reported order, and a call with a failed step
\* returns False.
C10_FailFast ==
    (fn = "dump_tree" /\ args.recursive /\ args.with_submodules) =>
        /\ \A k \in DOMAIN log : StepFailed(log[k]) => k = Len(log)
        /\ \A j \in DOMAIN Chdirs :
             j <= Len(submodules) /\ Chdirs[j].dir = submodules[j].subdir
        /\ (pc = "done" /\ \E k \in DOMAIN log : StepFailed(log[k]))
             => result = Returned("False")

\* the pipeline of the first of two submodules came back non-zero
C10_Witness ==
    /\ Done("dump_tree") /\ args.recursive /\ args.with_submodules
    /\ Len(submodules) = 2
    /\ Len(Chdirs) = 1
    /\ log[Len(log)].op = "pipe.copy"
    /\ log[Len(log)].ok
    /\ log[Len(log)].ret # 0

====
